---- MODULE Spec2Model ----
(***************************************************************************)
(* The network-status reducer of react-apollo-network-status               *)
(* (src/src/index.ts): the per-kind counters, the per-kind latest-error    *)
(* trackers, the snapshot reducer that composes them and keeps the         *)
(* identity of the snapshot when nothing changed, and the opt-out gate     *)
(* that the hook puts in front of it.                                      *)
(*                                                                         *)
(* JavaScript objects are modelled with their identity: every object is a  *)
(* record with a field `ref`, its address.  `===` on objects compares the  *)
(* addresses, on numbers the values.  `undefined` is the record with the   *)
(* null address and no other field.                                        *)
(***************************************************************************)
EXTENDS Integers, Sequences, FiniteSets

\* ------------------------------------------------------------------ bounds

\* Number of actions dispatched in one behaviour.
MaxEvents == 3

\* Number of actions dispatched through the hook in one behaviour.
MaxGateEvents == 2

\* Number of actions delivered for operation instances in one behaviour.
MaxInstanceEvents == 4

\* ------------------------------------------------------------- input domain

\* operation.operationName
Names == {"GetUser", "AddItem"}

\* OperationTypeNode of graphql
OperationTypes == {"query", "mutation", "subscription"}

\* ActionTypes, as used by the switch statements of the reducers
REQUEST == "REQUEST"
ERROR == "ERROR"
SUCCESS == "SUCCESS"
CANCEL == "CANCEL"

\* An action type none of the switch statements has a case for
UNKNOWN == "UNKNOWN"

ActionTypes == {REQUEST, ERROR, SUCCESS, CANCEL}

Undefined == [ref |-> 0]

\* operation.query.definitions: the operation's definition, and a fragment
Definitions(type) ==
    { [kind |-> "OperationDefinition", operation |-> type],
      [kind |-> "FragmentDefinition"] }

\* operation.getContext().useApolloNetworkStatus: not set, true or false
ContextFlags == {"undefined", "true", "false"}

MakeOperation(name, type, flag) ==
    [ operationName |-> name,
      query |-> [definitions |-> Definitions(type)],
      context |-> [useApolloNetworkStatus |-> flag] ]

\* payload.networkError of an ERROR action
NetworkErrors == {"E1", "E2"}

\* payload.result of a SUCCESS action: none, data only, data with an empty
\* errors array, errors
Results ==
    { Undefined,
      [data |-> "d"],
      [data |-> "d", errors |-> <<>>],
      [errors |-> <<"e1">>] }

\* NetworkStatusAction: {type, payload}
ActionsOn(operation) ==
    { [type |-> t, payload |-> [operation |-> operation]] :
          t \in {REQUEST, CANCEL, UNKNOWN} }
    \cup { [type |-> ERROR,
            payload |-> [operation |-> operation, networkError |-> e]] :
              e \in NetworkErrors }
    \cup { [type |-> SUCCESS,
            payload |-> [operation |-> operation, result |-> r]] :
              r \in Results }

\* ---------------------------------------------------------------- helpers

Max(a, b) == IF a >= b THEN a ELSE b

\* const {[operationName]: value = 0} = state
Lookup(entries, name) == IF name \in DOMAIN entries THEN entries[name] ELSE 0

\* {...state, [operationName]: v}
Spread(entries, name, v) ==
    [k \in DOMAIN entries \cup {name} |-> IF k = name THEN v ELSE entries[k]]

RECURSIVE SumOver(_, _)
SumOver(entries, keys) ==
    IF keys = {} THEN 0
    ELSE LET k == CHOOSE x \in keys : TRUE
         IN entries[k] + SumOver(entries, keys \ {k})

\* Sum of the values of a name -> count mapping
Sum(entries) == SumOver(entries, DOMAIN entries)

\* ------------------------------------------------------------ the reducers

\* Mutant: the comparison with the wanted type is inverted.
isOperationType_inverted(operation, type) ==
    \E definition \in operation.query.definitions :
        /\ definition.kind = "OperationDefinition"
        /\ definition.operation # type

isOperationType(operation, type) ==
    \E definition \in operation.query.definitions :
        /\ definition.kind = "OperationDefinition"
        /\ definition.operation = type

\* Mutant: the decrement is not floored at 0.
pendingOperations_noFloor(type, state, action, ref) ==
    IF ~isOperationType(action.payload.operation, type) THEN state
    ELSE LET operationName == action.payload.operation.operationName
             value == Lookup(state.entries, operationName)
         IN  CASE action.type = REQUEST ->
                    [ref |-> ref,
                     entries |-> Spread(state.entries, operationName, value + 1)]
               [] action.type \in {ERROR, SUCCESS, CANCEL} ->
                    [ref |-> ref,
                     entries |-> Spread(state.entries, operationName, value - 1)]
               [] OTHER -> state

\* Mutant: the new map holds the operation's name only (no ...state).
pendingOperations_noSpread(type, state, action, ref) ==
    IF ~isOperationType(action.payload.operation, type) THEN state
    ELSE LET operationName == action.payload.operation.operationName
             value == Lookup(state.entries, operationName)
         IN  CASE action.type = REQUEST ->
                    [ref |-> ref,
                     entries |-> [k \in {operationName} |-> value + 1]]
               [] action.type \in {ERROR, SUCCESS, CANCEL} ->
                    [ref |-> ref,
                     entries |-> [k \in {operationName} |-> Max(value - 1, 0)]]
               [] OTHER -> state

\* Mutant: an entry that reaches 0 is removed from the map.
pendingOperations_dropsZero(type, state, action, ref) ==
    IF ~isOperationType(action.payload.operation, type) THEN state
    ELSE LET operationName == action.payload.operation.operationName
             value == Lookup(state.entries, operationName)
         IN  CASE action.type = REQUEST ->
                    [ref |-> ref,
                     entries |-> Spread(state.entries, operationName, value + 1)]
               [] action.type \in {ERROR, SUCCESS, CANCEL} ->
                    [ref |-> ref,
                     entries |->
                        IF value - 1 > 0
                        THEN Spread(state.entries, operationName, value - 1)
                        ELSE [k \in DOMAIN state.entries \ {operationName} |->
                                 state.entries[k]]]
               [] OTHER -> state

\* `ref` is the address of the object the function allocates, if it does.
pendingOperations(type, state, action, ref) ==
    IF ~isOperationType(action.payload.operation, type) THEN state
    ELSE LET operationName == action.payload.operation.operationName
             value == Lookup(state.entries, operationName)
         IN  CASE action.type = REQUEST ->
                    [ref |-> ref,
                     entries |-> Spread(state.entries, operationName, value + 1)]
               [] action.type \in {ERROR, SUCCESS, CANCEL} ->
                    [ref |-> ref,
                     entries |-> Spread(state.entries, operationName,
                                        Max(value - 1, 0))]
               [] OTHER -> state

\* Mutant: no case for CANCEL.
numPendingOperations_noCancel(type, state, action) ==
    IF ~isOperationType(action.payload.operation, type) THEN state
    ELSE CASE action.type = REQUEST -> state + 1
           [] action.type \in {ERROR, SUCCESS} -> Max(state - 1, 0)
           [] OTHER -> state

\* Mutant: the decrement is not floored at 0.
numPendingOperations_noFloor(type, state, action) ==
    IF ~isOperationType(action.payload.operation, type) THEN state
    ELSE CASE action.type = REQUEST -> state + 1
           [] action.type \in {ERROR, SUCCESS, CANCEL} -> state - 1
           [] OTHER -> state

\* Mutant: the operation's type is not checked.
numPendingOperations_anyType(type, state, action) ==
    CASE action.type = REQUEST -> state + 1
      [] action.type \in {ERROR, SUCCESS, CANCEL} -> Max(state - 1, 0)
      [] OTHER -> state

numPendingOperations(type, state, action) ==
    IF ~isOperationType(action.payload.operation, type) THEN state
    ELSE CASE action.type = REQUEST -> state + 1
           [] action.type \in {ERROR, SUCCESS, CANCEL} -> Max(state - 1, 0)
           [] OTHER -> state

\* Mutant: a REQUEST clears the error of the same operation name only.
latestOperationError_sameNameOnly(type, state, action, ref) ==
    IF ~isOperationType(action.payload.operation, type) THEN state
    ELSE CASE action.type = REQUEST ->
                IF /\ state # Undefined
                   /\ state.operation.operationName
                          # action.payload.operation.operationName
                THEN state
                ELSE Undefined
           [] action.type = ERROR ->
                [ref |-> ref,
                 networkError |-> action.payload.networkError,
                 operation |-> action.payload.operation]
           [] action.type = SUCCESS ->
                LET result == action.payload.result
                IN  IF result # Undefined /\ "errors" \in DOMAIN result
                    THEN [ref |-> ref,
                          graphQLErrors |-> result.errors,
                          response |-> result,
                          operation |-> action.payload.operation]
                    ELSE state
           [] OTHER -> state

\* Mutant: an ERROR keeps the fields of the previous error
\* ({...state, networkError, operation}).
latestOperationError_errorMerges(type, state, action, ref) ==
    IF ~isOperationType(action.payload.operation, type) THEN state
    ELSE CASE action.type = REQUEST -> Undefined
           [] action.type = ERROR ->
                [k \in DOMAIN state \cup {"networkError", "operation"} |->
                    CASE k = "ref" -> ref
                      [] k = "networkError" -> action.payload.networkError
                      [] k = "operation" -> action.payload.operation
                      [] OTHER -> state[k]]
           [] action.type = SUCCESS ->
                LET result == action.payload.result
                IN  IF result # Undefined /\ "errors" \in DOMAIN result
                    THEN [ref |-> ref,
                          graphQLErrors |-> result.errors,
                          response |-> result,
                          operation |-> action.payload.operation]
                    ELSE state
           [] OTHER -> state

latestOperationError(type, state, action, ref) ==
    IF ~isOperationType(action.payload.operation, type) THEN state
    ELSE CASE action.type = REQUEST -> Undefined
           [] action.type = ERROR ->
                [ref |-> ref,
                 networkError |-> action.payload.networkError,
                 operation |-> action.payload.operation]
           [] action.type = SUCCESS ->
                LET result == action.payload.result
                IN  \* result && result.errors: an array, even an empty one,
                    \* is truthy
                    IF result # Undefined /\ "errors" \in DOMAIN result
                    THEN [ref |-> ref,
                          graphQLErrors |-> result.errors,
                          response |-> result,
                          operation |-> action.payload.operation]
                    ELSE state
           [] OTHER -> state

pendingQueries(state, action, ref) ==
    pendingOperations("query", state, action, ref)

pendingMutations(state, action, ref) ==
    pendingOperations("mutation", state, action, ref)

numPendingQueries(state, action) ==
    numPendingOperations("query", state, action)

numPendingMutations(state, action) ==
    numPendingOperations("mutation", state, action)

queryError(state, action, ref) ==
    latestOperationError("query", state, action, ref)

mutationError(state, action, ref) ==
    latestOperationError("mutation", state, action, ref)

\* Object.keys(state)
StateKeys ==
    {"pendingQueries", "pendingMutations", "numPendingQueries",
     "numPendingMutations", "queryError", "mutationError"}

\* a !== b for the values of the snapshot's field `key`
StrictNotEqual(key, a, b) ==
    IF key \in {"numPendingQueries", "numPendingMutations"}
    THEN a # b
    ELSE a.ref # b.ref

\* Addresses reducer uses: ref for updatedState, ref + 1 .. ref + 4 for the
\* objects the sub-reducers allocate.
Allocated == 5

\* Mutant: the copy is returned whether or not a value changed.
reducer_alwaysCopy(state, action, ref) ==
    IF isOperationType(action.payload.operation, "subscription") THEN state
    ELSE [ref |-> ref,
          pendingQueries |->
              pendingQueries(state.pendingQueries, action, ref + 1),
          pendingMutations |->
              pendingMutations(state.pendingMutations, action, ref + 2),
          numPendingQueries |->
              numPendingQueries(state.numPendingQueries, action),
          numPendingMutations |->
              numPendingMutations(state.numPendingMutations, action),
          queryError |-> queryError(state.queryError, action, ref + 3),
          mutationError |-> mutationError(state.mutationError, action, ref + 4)]

reducer(state, action, ref) ==
    IF isOperationType(action.payload.operation, "subscription") THEN state
    ELSE LET updatedState ==
                 [ref |-> ref,
                  pendingQueries |->
                      pendingQueries(state.pendingQueries, action, ref + 1),
                  pendingMutations |->
                      pendingMutations(state.pendingMutations, action, ref + 2),
                  numPendingQueries |->
                      numPendingQueries(state.numPendingQueries, action),
                  numPendingMutations |->
                      numPendingMutations(state.numPendingMutations, action),
                  queryError |->
                      queryError(state.queryError, action, ref + 3),
                  mutationError |->
                      mutationError(state.mutationError, action, ref + 4)]
             haveValuesChanged ==
                 \E key \in StateKeys :
                     StrictNotEqual(key, updatedState[key], state[key])
         IN  IF haveValuesChanged THEN updatedState ELSE state

initialState ==
    [ref |-> 1,
     numPendingQueries |-> 0,
     numPendingMutations |-> 0,
     pendingQueries |-> [ref |-> 2, entries |-> [k \in {} |-> 0]],
     pendingMutations |-> [ref |-> 3, entries |-> [k \in {} |-> 0]],
     queryError |-> Undefined,
     mutationError |-> Undefined]

\* First free address after initialState
FirstRef == 4

defaultShouldHandleOperation(operation) ==
    operation.context.useApolloNetworkStatus # "false"

\* options.shouldHandleOperation: not given, or one of these predicates
Predicates == {"undefined", "acceptAll", "rejectAll", "rejectMutations"}

ApplyPredicate(predicate, operation) ==
    CASE predicate = "acceptAll" -> TRUE
      [] predicate = "rejectAll" -> FALSE
      [] predicate = "rejectMutations" -> ~isOperationType(operation, "mutation")

\* options.shouldHandleOperation || defaultShouldHandleOperation, called
\* through the event callback, which always runs the latest predicate
shouldHandleOperationEventCallback(options, operation) ==
    IF options.shouldHandleOperation # "undefined"
    THEN ApplyPredicate(options.shouldHandleOperation, operation)
    ELSE defaultShouldHandleOperation(operation)

\* Mutant: the predicate's answer is ignored.
configuredReducer_noGate(options, state, action, ref) ==
    reducer(state, action, ref)

\* Mutant: the default predicate requires the flag to be true.
configuredReducer_optIn(options, state, action, ref) ==
    IF /\ options.shouldHandleOperation = "undefined"
       /\ action.payload.operation.context.useApolloNetworkStatus # "true"
    THEN state
    ELSE IF ~shouldHandleOperationEventCallback(options, action.payload.operation)
         THEN state
         ELSE reducer(state, action, ref)

configuredReducer(options, state, action, ref) ==
    IF ~shouldHandleOperationEventCallback(options, action.payload.operation)
    THEN state
    ELSE reducer(state, action, ref)

\* ------------------------------------------------------- reading an action

Kinds == {"query", "mutation"}

Terminal == {SUCCESS, ERROR, CANCEL}

\* The type of the operation an action carries, read off its document
TypeOf(a) ==
    CHOOSE t \in OperationTypes :
        [kind |-> "OperationDefinition", operation |-> t]
            \in a.payload.operation.query.definitions

NameOf(a) == a.payload.operation.operationName

\* The result of a SUCCESS action carries a non-empty sequence of errors
HasErrors(result) ==
    /\ result # Undefined
    /\ "errors" \in DOMAIN result
    /\ Len(result.errors) > 0

\* ------------------------------------------------------------------- state

VARIABLES
    state,            \* the current NetworkStatus snapshot
    prevState,        \* the snapshot the last action was applied to
    action,           \* the last action dispatched
    options,          \* the options of the hook's latest render
    dispatchOptions,  \* the options in force when the last action was dispatched
    nextRef,          \* the next free address
    numEvents,        \* number of actions dispatched so far
    lastDecisive,     \* history: per kind, the last action applied that was a
                      \* REQUEST, an ERROR or a SUCCESS with errors
    instances         \* history: the operation instances started, in order,
                      \* each with its operation and its phase

vars ==
    <<state, prevState, action, options, dispatchOptions, nextRef, numEvents,
      lastDecisive, instances>>

\* No action has been dispatched yet
NoAction == [type |-> "NONE"]

Init ==
    /\ state = initialState
    /\ prevState = initialState
    /\ action = NoAction
    /\ options = [shouldHandleOperation |-> "undefined"]
    /\ dispatchOptions = options
    /\ nextRef = FirstRef
    /\ numEvents = 0
    /\ lastDecisive = [kind \in Kinds |-> NoAction]
    /\ instances = <<>>

\* The operations of the reducer's own domain: every name and type, no
\* per-operation context flag.
Operations ==
    { MakeOperation(n, t, "undefined") : n \in Names, t \in OperationTypes }

Actions == UNION { ActionsOn(o) : o \in Operations }

\* An action that is a REQUEST, an ERROR or a SUCCESS with errors of a kind
Decisive(a, kind) ==
    /\ TypeOf(a) = kind
    /\ \/ a.type \in {REQUEST, ERROR}
       \/ a.type = SUCCESS /\ HasErrors(a.payload.result)

\* state := reducer(state, a), the exported reducer applied to the snapshot
Apply(a) ==
    /\ state' = reducer(state, a, nextRef)
    /\ prevState' = state
    /\ action' = a
    /\ nextRef' = nextRef + Allocated
    /\ numEvents' = numEvents + 1
    /\ lastDecisive' =
          [kind \in Kinds |->
              IF Decisive(a, kind) THEN a ELSE lastDecisive[kind]]
    /\ UNCHANGED <<options, dispatchOptions>>

\* Any action, in any order
Reduce(a) ==
    /\ numEvents < MaxEvents
    /\ Apply(a)
    /\ UNCHANGED instances

Next == \E a \in Actions : Reduce(a)

Spec == Init /\ [][Next]_vars

\* ---------------------------------------------------- operation instances

\* The operations that are counted: every name, queries and mutations
CountedOperations ==
    { MakeOperation(n, t, "undefined") : n \in Names, t \in Kinds }

TerminalActionsOn(operation) ==
    { a \in ActionsOn(operation) : a.type \in Terminal }

\* An operation instance starts: its REQUEST is delivered
Start(operation) ==
    /\ numEvents < MaxInstanceEvents
    /\ Apply([type |-> REQUEST, payload |-> [operation |-> operation]])
    /\ instances' =
          Append(instances, [operation |-> operation, phase |-> "inflight"])

\* An instance in flight ends: its SUCCESS, ERROR or CANCEL is delivered
Finish(i, a) ==
    /\ numEvents < MaxInstanceEvents
    /\ instances[i].phase = "inflight"
    /\ a \in TerminalActionsOn(instances[i].operation)
    /\ Apply(a)
    /\ instances' = [instances EXCEPT ![i].phase = "done"]

\* The anomaly: one more terminal action for an instance that has ended
Repeat(i, a) ==
    /\ numEvents < MaxInstanceEvents
    /\ instances[i].phase = "done"
    /\ a \in TerminalActionsOn(instances[i].operation)
    /\ Apply(a)
    /\ UNCHANGED instances

TerminalActions == UNION { TerminalActionsOn(o) : o \in CountedOperations }

\* The adapter keeps its ordering guarantee: for each instance its REQUEST,
\* then exactly one terminal action; instances interleave freely.
OrderedNext ==
    \/ \E o \in CountedOperations : Start(o)
    \/ \E i \in DOMAIN instances : \E a \in TerminalActions : Finish(i, a)

OrderedSpec == Init /\ [][OrderedNext]_vars

\* The guarantee is broken only by repeated terminal actions.
RepeatNext ==
    \/ \E o \in CountedOperations : Start(o)
    \/ \E i \in DOMAIN instances : \E a \in TerminalActions : Finish(i, a)
    \/ \E i \in DOMAIN instances : \E a \in TerminalActions : Repeat(i, a)

RepeatSpec == Init /\ [][RepeatNext]_vars

\* ------------------------------------------------------- the hook's reducer

\* The operations the hook sees: one name, every type, every context flag
GateOperations ==
    { MakeOperation("GetUser", t, f) : t \in OperationTypes, f \in ContextFlags }

GateActions == UNION { ActionsOn(o) : o \in GateOperations }

\* A render of the hook with another shouldHandleOperation option
Render(p) ==
    /\ p # options.shouldHandleOperation
    /\ options' = [shouldHandleOperation |-> p]
    /\ UNCHANGED <<state, prevState, action, dispatchOptions, nextRef, numEvents,
                   lastDecisive, instances>>

\* state := configuredReducer(state, a)
Dispatch(a) ==
    /\ numEvents < MaxGateEvents
    /\ state' = configuredReducer(options, state, a, nextRef)
    /\ prevState' = state
    /\ action' = a
    /\ dispatchOptions' = options
    /\ nextRef' = nextRef + Allocated
    /\ numEvents' = numEvents + 1
    /\ UNCHANGED <<options, lastDecisive, instances>>

GateNext ==
    \/ \E a \in GateActions : Dispatch(a)
    \/ \E p \in Predicates : Render(p)

GateSpec == Init /\ [][GateNext]_vars

\* ------------------------------------------------------------ properties
\* The properties speak of the last step: the action dispatched, the snapshot
\* it was applied to (prevState) and the snapshot that resulted (state).

Dispatched == numEvents > 0

\* The last step applied an action of type `types` to an operation of `kind`
Applied(types, kind) ==
    /\ Dispatched
    /\ action.type \in types
    /\ TypeOf(action) = kind

\* The fields of a snapshot that belong to a kind
PendingOf(snapshot, kind) ==
    IF kind = "query" THEN snapshot.pendingQueries ELSE snapshot.pendingMutations

NumPendingOf(snapshot, kind) ==
    IF kind = "query" THEN snapshot.numPendingQueries
    ELSE snapshot.numPendingMutations

ErrorOf(snapshot, kind) ==
    IF kind = "query" THEN snapshot.queryError ELSE snapshot.mutationError

\* The count of a name in a snapshot's map, 0 for an absent name
CountOf(snapshot, kind, name) == Lookup(PendingOf(snapshot, kind).entries, name)

Consistent(snapshot, kind) ==
    NumPendingOf(snapshot, kind) = Sum(PendingOf(snapshot, kind).entries)

\* C1: in every snapshot returned by the reducer, whatever the sequence of
\* actions, every per-name count of pendingQueries and pendingMutations and
\* both totals are >= 0.
C1_NonNegative ==
    \A kind \in Kinds :
        /\ NumPendingOf(state, kind) >= 0
        /\ \A n \in DOMAIN PendingOf(state, kind).entries :
               PendingOf(state, kind).entries[n] >= 0

\* A terminal action with no REQUEST before it has been applied, and the
\* count and the total it found at 0 are still 0.
C1_Witness ==
    \E kind \in Kinds :
        /\ Applied(Terminal, kind)
        /\ CountOf(prevState, kind, NameOf(action)) = 0
        /\ NumPendingOf(prevState, kind) = 0
        /\ NameOf(action) \in DOMAIN PendingOf(state, kind).entries
        /\ CountOf(state, kind, NameOf(action)) = 0
        /\ NumPendingOf(state, kind) = 0

\* C2 as stated: in every reachable snapshot the total of a kind equals the
\* sum of the values of the kind's map.
C2_TotalEqualsSum ==
    \A kind \in Kinds : Consistent(state, kind)

\* C2 as amended: the total of a kind equals the sum of the values of the
\* kind's map in initialState, and every action keeps them equal, except a
\* SUCCESS, ERROR or CANCEL of that kind for a name whose count is 0 while
\* the total is above 0.
C2_TotalEqualsSumKept ==
    /\ \A kind \in Kinds : Consistent(initialState, kind)
    /\ \A kind \in Kinds :
          (/\ Dispatched
           /\ Consistent(prevState, kind)
           /\ ~(/\ Applied(Terminal, kind)
                /\ CountOf(prevState, kind, NameOf(action)) = 0
                /\ NumPendingOf(prevState, kind) > 0))
          => Consistent(state, kind)

\* A CANCEL found its name's count above 0 with another name pending too, and
\* total and sum, equal before, are still equal.
C2_Witness ==
    \E kind \in Kinds :
        /\ Applied({CANCEL}, kind)
        /\ Consistent(prevState, kind)
        /\ CountOf(prevState, kind, NameOf(action)) = 1
        /\ NumPendingOf(prevState, kind) = 2
        /\ Consistent(state, kind)
        /\ NumPendingOf(state, kind) = 1

\* C3: for an action on a subscription operation, of any action type, the
\* reducer returns the snapshot object it was given, with every field as it
\* was.
C3_SubscriptionIgnored ==
    (Dispatched /\ TypeOf(action) = "subscription")
        => /\ state.ref = prevState.ref
           /\ state = prevState

\* A subscription's REQUEST has been applied to a snapshot other than
\* initialState.
C3_Witness ==
    /\ Applied({REQUEST}, "subscription")
    /\ prevState.ref # initialState.ref
    /\ prevState.numPendingQueries > 0
    /\ state.ref = prevState.ref

\* C4: a query SUCCESS without errors, applied to a snapshot whose queryError
\* is absent, whose count for the name is 0 and whose total is 0 (so that no
\* field changes its value), returns the snapshot object it was given.
C4_NoOpKeepsIdentity ==
    \A kind \in Kinds :
        (/\ Applied({SUCCESS}, kind)
         /\ action.payload.result = [data |-> "d"]
         /\ ErrorOf(prevState, kind) = Undefined
         /\ NameOf(action) \in DOMAIN PendingOf(prevState, kind).entries
         /\ CountOf(prevState, kind, NameOf(action)) = 0
         /\ NumPendingOf(prevState, kind) = 0)
        => state.ref = prevState.ref

\* C5: a REQUEST of a kind, of any operation name, applied to a snapshot
\* that holds an error of that kind, yields a snapshot without it.
C5_RequestClearsError ==
    \A kind \in Kinds :
        (/\ Applied({REQUEST}, kind)
         /\ ErrorOf(prevState, kind) # Undefined)
        => ErrorOf(state, kind) = Undefined

\* A REQUEST has cleared the error another operation name had produced.
C5_Witness ==
    \E kind \in Kinds :
        /\ Applied({REQUEST}, kind)
        /\ ErrorOf(prevState, kind) # Undefined
        /\ ErrorOf(prevState, kind).operation.operationName # NameOf(action)
        /\ ErrorOf(state, kind) = Undefined

\* C6: an ERROR of a kind replaces the kind's error with a new object that
\* holds exactly the action's networkError and operation, whatever the error
\* was before.
C6_ErrorOverwrites ==
    \A kind \in Kinds :
        Applied({ERROR}, kind)
        => /\ DOMAIN ErrorOf(state, kind) = {"ref", "networkError", "operation"}
           /\ ErrorOf(state, kind).networkError = action.payload.networkError
           /\ ErrorOf(state, kind).operation = action.payload.operation
           /\ ErrorOf(state, kind).ref # 0
           /\ ErrorOf(state, kind).ref # ErrorOf(prevState, kind).ref

\* An ERROR has replaced an error that held graphQLErrors and a response.
C6_Witness ==
    \E kind \in Kinds :
        /\ Applied({ERROR}, kind)
        /\ "graphQLErrors" \in DOMAIN ErrorOf(prevState, kind)
        /\ "response" \in DOMAIN ErrorOf(prevState, kind)
        /\ DOMAIN ErrorOf(state, kind) = {"ref", "networkError", "operation"}

\* C7: a SUCCESS of a kind replaces the kind's error with
\* {graphQLErrors, response, operation} if and only if its result carries a
\* non-empty errors sequence; otherwise the error stays the object it was.
C7_SuccessRecordsErrorsOnly ==
    \A kind \in Kinds :
        Applied({SUCCESS}, kind)
        => IF HasErrors(action.payload.result)
           THEN /\ DOMAIN ErrorOf(state, kind)
                      = {"ref", "graphQLErrors", "response", "operation"}
                /\ ErrorOf(state, kind).graphQLErrors
                      = action.payload.result.errors
                /\ ErrorOf(state, kind).response = action.payload.result
                /\ ErrorOf(state, kind).operation = action.payload.operation
           ELSE ErrorOf(state, kind) = ErrorOf(prevState, kind)

\* C8: a REQUEST of a kind for a name makes the name's count the previous
\* count plus 1 (0 for an absent name), a SUCCESS, ERROR or CANCEL makes it
\* max(previous - 1, 0), and neither changes another name's entry; two
\* REQUESTs and then one terminal action for a name leave its count at 1.
C8_PerNameCount ==
    \A kind \in Kinds :
        LET name == NameOf(action)
            before == PendingOf(prevState, kind).entries
            after == PendingOf(state, kind).entries
            others ==
                \A k \in Names \ {name} :
                    /\ k \in DOMAIN after <=> k \in DOMAIN before
                    /\ k \in DOMAIN before => after[k] = before[k]
        IN  /\ Applied({REQUEST}, kind)
                => /\ name \in DOMAIN after
                   /\ after[name] = Lookup(before, name) + 1
                   /\ others
            /\ Applied(Terminal, kind)
                => /\ name \in DOMAIN after
                   /\ after[name] = Max(Lookup(before, name) - 1, 0)
                   /\ others
            /\ (/\ Applied(Terminal, kind)
                /\ numEvents = 3
                /\ Lookup(before, name) = 2)
                => after[name] = 1

\* Two REQUESTs for a name and then one SUCCESS for it have been applied from
\* initialState, and the name's count is 1.
C8_Witness ==
    \E kind \in Kinds :
        /\ Applied({SUCCESS}, kind)
        /\ numEvents = 3
        /\ CountOf(prevState, kind, NameOf(action)) = 2
        /\ CountOf(state, kind, NameOf(action)) = 1

\* C9: a REQUEST of a kind adds exactly 1 to the kind's total and a SUCCESS,
\* ERROR or CANCEL makes it max(previous - 1, 0), whatever the operation
\* name and the per-name map; a REQUEST and then a terminal action from
\* initialState bring the total back to 0.
C9_Total ==
    \A kind \in Kinds :
        /\ Applied({REQUEST}, kind)
              => NumPendingOf(state, kind) = NumPendingOf(prevState, kind) + 1
        /\ Applied(Terminal, kind)
              => NumPendingOf(state, kind)
                    = Max(NumPendingOf(prevState, kind) - 1, 0)
        /\ (Applied(Terminal, kind) /\ numEvents = 2
               /\ NumPendingOf(prevState, kind) = 1)
              => NumPendingOf(state, kind) = 0

\* A mutation's REQUEST and then its ERROR have been applied from
\* initialState, and the total is 0 again.
C9_Witness ==
    /\ Applied({ERROR}, "mutation")
    /\ numEvents = 2
    /\ prevState.numPendingMutations = 1
    /\ CountOf(prevState, "mutation", NameOf(action)) = 1
    /\ state.numPendingMutations = 0
    /\ state.mutationError.networkError = action.payload.networkError

\* The predicate in force at the last dispatch rejects the operation: the
\* given predicate answers false or, none being given, the operation's
\* context flag is false.
Rejected ==
    IF dispatchOptions.shouldHandleOperation = "undefined"
    THEN action.payload.operation.context.useApolloNetworkStatus = "false"
    ELSE ~ApplyPredicate(dispatchOptions.shouldHandleOperation,
                         action.payload.operation)

\* C10: when the opt-out predicate rejects the operation, the configured
\* reducer returns the snapshot object it was given, unchanged; when it
\* accepts, the result is reducer(state, action); without a predicate an
\* operation is rejected only if its context flag is false.
C10_Gate ==
    Dispatched
    => /\ Rejected => (state.ref = prevState.ref /\ state = prevState)
       /\ ~Rejected
            => state = reducer(prevState, action, nextRef - Allocated)

\* A mutation's REQUEST whose context flag is false has been dispatched with
\* no predicate given, to a snapshot that has a query pending, and the
\* snapshot is the same object.
C10_Witness ==
    /\ Applied({REQUEST}, "mutation")
    /\ dispatchOptions.shouldHandleOperation = "undefined"
    /\ action.payload.operation.context.useApolloNetworkStatus = "false"
    /\ prevState.numPendingQueries = 1
    /\ state.ref = prevState.ref
    /\ state.numPendingMutations = 0

\* The other of the two kinds
OtherKind(kind) == IF kind = "query" THEN "mutation" ELSE "query"

\* C12: an action whose type is none of REQUEST, SUCCESS, ERROR, CANCEL, on
\* an operation of any type, is evaluated without error and returns the
\* snapshot object it was given, all six fields unchanged.
C12_UnknownActionIgnored ==
    (Dispatched /\ action.type \notin ActionTypes)
        => /\ state.ref = prevState.ref
           /\ \A key \in StateKeys : state[key] = prevState[key]

\* An action of unknown type on a query has been applied to a snapshot that
\* has a query pending and holds a mutation error.
C12_Witness ==
    /\ Applied({UNKNOWN}, "query")
    /\ prevState.numPendingQueries = 1
    /\ prevState.mutationError # Undefined
    /\ state.ref = prevState.ref

\* C13: an action on a query leaves pendingMutations (the same object),
\* numPendingMutations and mutationError as they were, and an action on a
\* mutation leaves pendingQueries, numPendingQueries and queryError as they
\* were, for every action type.
C13_KindIsolation ==
    \A kind \in Kinds :
        (Dispatched /\ TypeOf(action) = kind)
        => /\ PendingOf(state, OtherKind(kind)).ref
                 = PendingOf(prevState, OtherKind(kind)).ref
           /\ PendingOf(state, OtherKind(kind))
                 = PendingOf(prevState, OtherKind(kind))
           /\ NumPendingOf(state, OtherKind(kind))
                 = NumPendingOf(prevState, OtherKind(kind))
           /\ ErrorOf(state, OtherKind(kind)).ref
                 = ErrorOf(prevState, OtherKind(kind)).ref
           /\ ErrorOf(state, OtherKind(kind))
                 = ErrorOf(prevState, OtherKind(kind))

\* A query's ERROR has been applied to a snapshot whose mutation map has an
\* entry for the same name and that holds a mutation error; the mutation's
\* fields are as before and the query's error is set.
C13_Witness ==
    /\ Applied({ERROR}, "query")
    /\ NameOf(action) \in DOMAIN prevState.pendingMutations.entries
    /\ prevState.mutationError # Undefined
    /\ state.mutationError = prevState.mutationError
    /\ state.pendingMutations.ref = prevState.pendingMutations.ref
    /\ state.pendingMutations.ref # initialState.pendingMutations.ref
    /\ state.queryError # Undefined

\* C16: whatever the sequence of actions, the total of a kind never exceeds
\* the sum of the kind's per-name counts, and the two come to differ only
\* through a SUCCESS, ERROR or CANCEL of the kind for a name whose own count
\* was already 0.
C16_TotalAtMostSum ==
    \A kind \in Kinds :
        /\ NumPendingOf(state, kind) <= Sum(PendingOf(state, kind).entries)
        /\ (Dispatched /\ Consistent(prevState, kind) /\ ~Consistent(state, kind))
              => /\ Applied(Terminal, kind)
                 /\ CountOf(prevState, kind, NameOf(action)) = 0

\* A terminal action for a name whose count was 0 has taken the total below
\* the sum.
C16_Witness ==
    \E kind \in Kinds :
        /\ Applied(Terminal, kind)
        /\ CountOf(prevState, kind, NameOf(action)) = 0
        /\ Consistent(prevState, kind)
        /\ NumPendingOf(state, kind) < Sum(PendingOf(state, kind).entries)

\* C17: the set of names in pendingQueries, and in pendingMutations, never
\* shrinks: a name whose count returns to 0 stays in the map with 0, and a
\* SUCCESS, ERROR or CANCEL of the kind for a name not in the map inserts it
\* with 0.
C17_NamesNeverShrink ==
    \A kind \in Kinds :
        LET before == PendingOf(prevState, kind).entries
            after == PendingOf(state, kind).entries
        IN  /\ DOMAIN before \subseteq DOMAIN after
            /\ (Applied(Terminal, kind) /\ Lookup(before, NameOf(action)) <= 1)
                  => /\ NameOf(action) \in DOMAIN after
                     /\ after[NameOf(action)] = 0

\* A name requested once has received its terminal action and then one more:
\* it is still in the map with 0; and a terminal action for a name never
\* requested has inserted that name with 0.
C17_Witness ==
    \E kind \in Kinds :
        /\ Applied(Terminal, kind)
        /\ numEvents = MaxEvents
        /\ NameOf(action) \notin DOMAIN PendingOf(prevState, kind).entries
        /\ CountOf(state, kind, NameOf(action)) = 0
        /\ NameOf(action) \in DOMAIN PendingOf(state, kind).entries
        /\ \E k \in DOMAIN PendingOf(prevState, kind).entries :
               /\ PendingOf(prevState, kind).entries[k] = 0
               /\ PendingOf(state, kind).entries[k] = 0

\* The instances in flight of a kind and a name: REQUEST delivered, no
\* terminal action yet
InFlight(kind, name) ==
    { i \in DOMAIN instances :
        /\ instances[i].phase = "inflight"
        /\ instances[i].operation.operationName = name
        /\ isOperationType(instances[i].operation, kind) }

InFlightOfKind(kind) == UNION { InFlight(kind, name) : name \in Names }

\* C11: when the only anomaly is that an instance receives more than one
\* terminal action, in every snapshot the total of a kind is at least 0 and
\* at most the number of instances of the kind in flight: it can fall short
\* of it, never exceed it.
C11_RepeatsOnlyUnderCount ==
    \A kind \in Kinds :
        /\ NumPendingOf(state, kind) >= 0
        /\ NumPendingOf(state, kind) <= Cardinality(InFlightOfKind(kind))

\* A terminal action has been repeated for an instance that had ended, and
\* the total is now below the number of instances in flight.
C11_Witness ==
    \E kind \in Kinds :
        /\ Applied(Terminal, kind)
        /\ \E i \in DOMAIN instances :
              /\ instances[i].phase = "done"
              /\ instances[i].operation = action.payload.operation
        /\ NumPendingOf(prevState, kind) = Cardinality(InFlightOfKind(kind))
        /\ NumPendingOf(state, kind) < Cardinality(InFlightOfKind(kind))

\* An object's fields without its address
Fields(object) == [k \in DOMAIN object \ {"ref"} |-> object[k]]

\* C14: after any sequence of actions the error of a kind is determined by
\* the last action of that kind that is a REQUEST, an ERROR or a SUCCESS
\* with errors: absent if there is none or it is a REQUEST, its
\* {networkError, operation} if it is an ERROR, its
\* {graphQLErrors, response, operation} if it is a SUCCESS with errors.
C14_ErrorIsLastDecisive ==
    \A kind \in Kinds :
        LET last == lastDecisive[kind]
        IN  CASE last.type \in {"NONE", REQUEST} ->
                    ErrorOf(state, kind) = Undefined
              [] last.type = ERROR ->
                    Fields(ErrorOf(state, kind))
                        = [networkError |-> last.payload.networkError,
                           operation |-> last.payload.operation]
              [] last.type = SUCCESS ->
                    Fields(ErrorOf(state, kind))
                        = [graphQLErrors |-> last.payload.result.errors,
                           response |-> last.payload.result,
                           operation |-> last.payload.operation]

\* C15: when every instance gets its REQUEST and then exactly one terminal
\* action, in every snapshot the count of each name is the number of
\* instances of that name in flight and the total of a kind is the number
\* of instances of the kind in flight; once every instance has ended, all
\* counts and both totals are 0.
C15_CountsAreInFlight ==
    \A kind \in Kinds :
        /\ \A name \in Names :
              CountOf(state, kind, name) = Cardinality(InFlight(kind, name))
        /\ NumPendingOf(state, kind) = Cardinality(InFlightOfKind(kind))
        /\ (\A i \in DOMAIN instances : instances[i].phase = "done")
              => /\ NumPendingOf(state, kind) = 0
                 /\ \A name \in DOMAIN PendingOf(state, kind).entries :
                       PendingOf(state, kind).entries[name] = 0

\* Two instances of one name and kind were both in flight and have both
\* ended: the name's count and the total, 1 before the last action, are 0.
C15_Witness ==
    \E kind \in Kinds :
        /\ Applied(Terminal, kind)
        /\ Len(instances) = 2
        /\ instances[1].operation = instances[2].operation
        /\ \A i \in DOMAIN instances : instances[i].phase = "done"
        /\ CountOf(prevState, kind, NameOf(action)) = 1
        /\ NumPendingOf(prevState, kind) = 1
        /\ CountOf(state, kind, NameOf(action)) = 0
        /\ NumPendingOf(state, kind) = 0

====
